---- MODULE Spec2Model ----
(***************************************************************************)
(* Logical-device aggregation of xknxproject (xknxproject/logical_devices.py) *)
(*                                                                         *)
(* Python str values are modelled as sequences of one-character strings so *)
(* that splitting, integer parsing and lexicographic comparison are        *)
(* computed and not assumed.  Optional values (T | None) are modelled as   *)
(* sequences of length 0 (None) or 1 (the value).                          *)
(***************************************************************************)
EXTENDS Integers, Sequences, FiniteSets, TLC

\* ------------------------------------------------------------------------
\* Bounds of the model
\* ------------------------------------------------------------------------
\* longest group_address_links list of a communication object
MaxLinks == 2
\* largest number of devices in a project of the device-ordering family
MaxDevices == 3

\* ------------------------------------------------------------------------
\* Python values
\* ------------------------------------------------------------------------
None == <<>>
Some(x) == <<x>>

\* code points of the characters that occur in the modelled strings
Ord ==
  ("-" :> 45) @@ ("." :> 46) @@ ("/" :> 47) @@ ("0" :> 48) @@ ("1" :> 49) @@
  ("2" :> 50) @@ ("3" :> 51) @@ ("4" :> 52) @@ ("5" :> 53) @@ ("6" :> 54) @@
  ("7" :> 55) @@ ("8" :> 56) @@ ("9" :> 57) @@ ("a" :> 97) @@ ("b" :> 98) @@
  ("x" :> 120) @@ ("y" :> 121)

Digits == {"0", "1", "2", "3", "4", "5", "6", "7", "8", "9"}

DigitVal(c) == Ord[c] - Ord["0"]

\* the code points of a str
Codes(s) == [i \in 1..Len(s) |-> Ord[s[i]]]

\* tuple.__lt__ on tuples of int: lexicographic, a proper prefix is smaller
RECURSIVE TupleLess(_, _)
TupleLess(s, t) ==
  IF t = <<>> THEN FALSE
  ELSE IF s = <<>> THEN TRUE
  ELSE IF Head(s) # Head(t) THEN Head(s) < Head(t)
  ELSE TupleLess(Tail(s), Tail(t))

\* str.__lt__: lexicographic by code point, a proper prefix is smaller
StrLess(s, t) == TupleLess(Codes(s), Codes(t))

\* sorted(items, key=...): the stable ascending order of the items, given as
\* a sequence of [key, val] whose keys are mutually comparable tuples of int
SortedByKey(items) ==
  LET ins[i \in 0..Len(items)] ==
        IF i = 0 THEN <<>>
        ELSE LET prev == ins[i - 1]
                 x == items[i]
                 p == Cardinality({j \in 1..Len(prev) : ~TupleLess(x.key, prev[j].key)})
             IN  SubSeq(prev, 1, p) \o <<x>> \o SubSeq(prev, p + 1, Len(prev))
      res == ins[Len(items)]
  IN  [i \in 1..Len(res) |-> res[i].val]

\* str.split("."): the segments between the dots, empty segments kept
RECURSIVE SplitFrom(_, _)
SplitFrom(s, cur) ==
  IF s = <<>> THEN <<cur>>
  ELSE IF Head(s) = "." THEN <<cur>> \o SplitFrom(Tail(s), <<>>)
  ELSE SplitFrom(Tail(s), Append(cur, Head(s)))

Split(s) == SplitFrom(s, <<>>)

RECURSIVE DigitsValue(_, _)
DigitsValue(s, acc) ==
  IF s = <<>> THEN acc ELSE DigitsValue(Tail(s), 10 * acc + DigitVal(Head(s)))

AllDigits(s) == s # <<>> /\ \A i \in 1..Len(s) : s[i] \in Digits

\* int(str): an optional sign followed by one or more digits; anything else
\* raises ValueError (ok = FALSE)
ParseInt(s) ==
  IF AllDigits(s) THEN [ok |-> TRUE, val |-> DigitsValue(s, 0)]
  ELSE IF s # <<>> /\ Head(s) = "-" /\ AllDigits(Tail(s))
       THEN [ok |-> TRUE, val |-> 0 - DigitsValue(Tail(s), 0)]
  ELSE [ok |-> FALSE, val |-> 0]

\* a faulty variant of _individual_address_sort_key that orders the devices by the
\* text of the address
AddressTextSortKey(individual_address) == Codes(individual_address)

\* _individual_address_sort_key: tuple(int(part) for part in split(".")),
\* (0, 0, 0) when a part raises ValueError
_individual_address_sort_key(individual_address) ==
  LET parts == Split(individual_address)
  IN  IF \A i \in 1..Len(parts) : ParseInt(parts[i]).ok
      THEN [i \in 1..Len(parts) |-> ParseInt(parts[i]).val]
      ELSE <<0, 0, 0>>

\* ------------------------------------------------------------------------
\* The aggregation of one device (_collect_group_addresses and its helpers)
\* ------------------------------------------------------------------------
\* dict.get(key): None when the key is absent
DictGet(d, k) == IF k \in DOMAIN d THEN Some(d[k]) ELSE None

\* _gather_comm_object_ids: the device's own ids and those of every channel
_gather_comm_object_ids(device) ==
  device.communication_object_ids \cup
  UNION {device.channels[ch].communication_object_ids : ch \in DOMAIN device.channels}

\* a faulty variant of _channel_name that falls back to the channel id when
\* the device has no channel with that id
ChannelNameOrId(device, channel_id) ==
  IF channel_id = None THEN None
  ELSE IF channel_id[1] \in DOMAIN device.channels
       THEN Some(device.channels[channel_id[1]].name)
  ELSE channel_id

\* _channel_name: the name of the device's channel with that id, else None
_channel_name(device, channel_id) ==
  IF channel_id = None THEN None
  ELSE IF channel_id[1] \in DOMAIN device.channels
       THEN Some(device.channels[channel_id[1]].name)
  ELSE None

\* _build_group_address_entry: the metadata of the table record, or the stub
_build_group_address_entry(group_address, group_address_data) ==
  IF group_address_data # None
  THEN [address |-> group_address_data[1].address,
        name |-> group_address_data[1].name,
        project_uid |-> group_address_data[1].project_uid,
        dpt |-> group_address_data[1].dpt,
        data_secure |-> group_address_data[1].data_secure,
        description |-> group_address_data[1].description,
        comment |-> group_address_data[1].comment,
        communication_objects |-> <<>>]
  ELSE [address |-> group_address, name |-> "", project_uid |-> None,
        dpt |-> None, data_secure |-> FALSE, description |-> "",
        comment |-> "", communication_objects |-> <<>>]

\* _summarize_comm_object: the exported projection of one endpoint
_summarize_comm_object(comm_object_id, comm_object, channel_name) ==
  [id |-> comm_object_id,
   name |-> comm_object.name,
   number |-> comm_object.number,
   text |-> comm_object.text,
   function_text |-> comm_object.function_text,
   description |-> comm_object.description,
   channel |-> comm_object.channel,
   channel_name |-> channel_name]

\* grouped_addresses is a dict in insertion order: a sequence of [key, entry]
DictIndex(grouped, k) ==
  IF \E i \in 1..Len(grouped) : grouped[i].key = k
  THEN CHOOSE i \in 1..Len(grouped) : grouped[i].key = k
  ELSE 0

\* a faulty variant of AppendLink that adds a new entry for every link instead of
\* retrieving the entry the dict already holds for the address
AppendLinkAlways(grouped, group_address, new_entry, link) ==
  Append(grouped,
         [key |-> group_address,
          entry |-> [new_entry EXCEPT !.communication_objects = <<link>>]])

\* a faulty variant of AppendLink that appends the link only to an entry the
\* dict already holds, and leaves a newly created entry without links
AppendLinkToExisting(grouped, group_address, new_entry, link) ==
  LET i == DictIndex(grouped, group_address)
  IN  IF i = 0 THEN Append(grouped, [key |-> group_address, entry |-> new_entry])
      ELSE [grouped EXCEPT ![i].entry.communication_objects = Append(@, link)]

\* grouped_addresses.setdefault(group_address, <new entry>), then
\* group_entry["communication_objects"].append(link)
AppendLink(grouped, group_address, new_entry, link) ==
  LET i == DictIndex(grouped, group_address)
      g == IF i = 0 THEN Append(grouped, [key |-> group_address, entry |-> new_entry])
           ELSE grouped
      j == IF i = 0 THEN Len(g) ELSE i
  IN  [g EXCEPT ![j].entry.communication_objects = Append(@, link)]

\* a faulty variant of VisitLink without the processed_links guard
VisitLinkNoGuard(st, group_address, comm_object_id, comm_object, channel_name, group_addresses) ==
  [processed_links |-> st.processed_links \cup {<<group_address, comm_object_id>>},
   grouped_addresses |->
     AppendLink(st.grouped_addresses, group_address,
                _build_group_address_entry(group_address,
                                           DictGet(group_addresses, group_address)),
                _summarize_comm_object(comm_object_id, comm_object, channel_name))]

\* one iteration of the loop over comm_object["group_address_links"]
VisitLink(st, group_address, comm_object_id, comm_object, channel_name, group_addresses) ==
  IF <<group_address, comm_object_id>> \in st.processed_links THEN st
  ELSE [processed_links |-> st.processed_links \cup {<<group_address, comm_object_id>>},
        grouped_addresses |->
          AppendLink(st.grouped_addresses, group_address,
                     _build_group_address_entry(group_address,
                                                DictGet(group_addresses, group_address)),
                     _summarize_comm_object(comm_object_id, comm_object, channel_name))]

\* the loop over comm_object["group_address_links"], in list order
RECURSIVE VisitLinks(_, _, _, _, _, _)
VisitLinks(st, links, comm_object_id, comm_object, channel_name, group_addresses) ==
  IF links = <<>> THEN st
  ELSE VisitLinks(VisitLink(st, Head(links), comm_object_id, comm_object,
                            channel_name, group_addresses),
                  Tail(links), comm_object_id, comm_object, channel_name, group_addresses)

\* a faulty variant of VisitCommObject that does not skip an id absent from the
\* endpoint table but records a placeholder link for it under the bus ""
VisitCommObjectPlaceholder(st, device, comm_object_id, communication_objects, group_addresses) ==
  IF DictGet(communication_objects, comm_object_id) = None
  THEN [st EXCEPT !.grouped_addresses =
          AppendLink(@, <<>>, _build_group_address_entry(<<>>, None),
                     [id |-> comm_object_id, name |-> "", number |-> 0, text |-> "",
                      function_text |-> "", description |-> "", channel |-> None,
                      channel_name |-> None])]
  ELSE LET comm_object == communication_objects[comm_object_id]
       IN  VisitLinks(st, comm_object.group_address_links, comm_object_id, comm_object,
                      _channel_name(device, comm_object.channel), group_addresses)

\* one iteration of the loop over device_comm_object_ids
VisitCommObject(st, device, comm_object_id, communication_objects, group_addresses) ==
  IF DictGet(communication_objects, comm_object_id) = None THEN st
  ELSE LET comm_object == communication_objects[comm_object_id]
       IN  VisitLinks(st, comm_object.group_address_links, comm_object_id, comm_object,
                      _channel_name(device, comm_object.channel), group_addresses)

\* sort_key of _sort_group_addresses: the raw_address (an int) of a bus of
\* the table, else the address (a str)
sort_key(entry, group_addresses) ==
  IF DictGet(group_addresses, entry.address) # None
  THEN [kind |-> "int", key |-> <<group_addresses[entry.address].raw_address>>]
  ELSE [kind |-> "str", key |-> Codes(entry.address)]

\* sorted() compares keys with <: between an int and a str Python raises
\* TypeError, and a sort of two or more keys of both kinds makes that comparison
MixedKeys(keys) ==
  \E i, j \in 1..Len(keys) : keys[i].kind # keys[j].kind

\* _sort_group_addresses: sorted(grouped_addresses.values(), key=sort_key);
\* ok = FALSE stands for the TypeError
_sort_group_addresses(grouped_addresses, group_addresses) ==
  LET keys == [i \in 1..Len(grouped_addresses) |->
                 sort_key(grouped_addresses[i].entry, group_addresses)]
  IN  IF MixedKeys(keys) THEN [ok |-> FALSE, val |-> <<>>]
      ELSE [ok |-> TRUE,
            val |-> SortedByKey([i \in 1..Len(grouped_addresses) |->
                                   [key |-> keys[i].key,
                                    val |-> grouped_addresses[i].entry]])]

\* a faulty variant of LinkSortKey that sorts the links by number only
NumberOnlyKey(co) == <<co.number>>

\* a faulty variant of LinkSortKey that leaves the links in the order they were added
NoLinkSortKey(co) == <<>>

\* key=lambda co: (co["number"], co["id"]), compared as a tuple
LinkSortKey(co) == <<co.number>> \o Codes(co.id)

\* group["communication_objects"].sort(key=...)
SortLinks(group) ==
  [group EXCEPT !.communication_objects =
     SortedByKey([i \in 1..Len(@) |-> [key |-> LinkSortKey(@[i]), val |-> @[i]]])]

\* the end of _collect_group_addresses: sort the groups, then the links of
\* each group; ok = FALSE when the sort of the groups raised
SortGrouped(grouped_addresses, group_addresses) ==
  LET sorted_groups == _sort_group_addresses(grouped_addresses, group_addresses)
  IN  IF ~sorted_groups.ok THEN sorted_groups
      ELSE [ok |-> TRUE,
            val |-> [i \in 1..Len(sorted_groups.val) |-> SortLinks(sorted_groups.val[i])]]

\* the state of _collect_group_addresses before its loop
EmptyScan == [grouped_addresses |-> <<>>, processed_links |-> {}]

\* the loop over device_comm_object_ids when the set is iterated in `order`
RECURSIVE ScanInOrder(_, _, _, _, _)
ScanInOrder(st, order, device, communication_objects, group_addresses) ==
  IF order = <<>> THEN st
  ELSE ScanInOrder(VisitCommObject(st, device, Head(order), communication_objects,
                                   group_addresses),
                   Tail(order), device, communication_objects, group_addresses)

\* _collect_group_addresses when the id set is iterated in `order`
CollectInOrder(order, device, communication_objects, group_addresses) ==
  SortGrouped(ScanInOrder(EmptyScan, order, device, communication_objects,
                          group_addresses).grouped_addresses,
              group_addresses)

\* the elements of a set of str in ascending order
RECURSIVE Ascending(_)
Ascending(S) ==
  IF S = {} THEN <<>>
  ELSE LET m == CHOOSE x \in S : \A y \in S : ~StrLess(y, x)
       IN  <<m>> \o Ascending(S \ {m})

\* ------------------------------------------------------------------------
\* Project models (the input of build_logical_device_view)
\* ------------------------------------------------------------------------
\* group addresses "1/0/5", "1/0/10" and "0/0/1"
GA5 == <<"1", "/", "0", "/", "5">>
GA10 == <<"1", "/", "0", "/", "1", "0">>
GA1 == <<"0", "/", "0", "/", "1">>

\* the records the bus table holds for these addresses when it holds them;
\* raw_address is main * 2048 + middle * 256 + sub, so it is one-to-one
GroupAddressPool ==
  (GA5 :> [address |-> GA5, name |-> "Light", project_uid |-> Some(11),
           dpt |-> Some([main |-> 1, sub |-> None]), data_secure |-> FALSE,
           description |-> "switch", comment |-> "hall", raw_address |-> 2053]) @@
  (GA10 :> [address |-> GA10, name |-> "Blind", project_uid |-> Some(12),
            dpt |-> Some([main |-> 5, sub |-> Some(1)]), data_secure |-> TRUE,
            description |-> "position", comment |-> "south", raw_address |-> 2058]) @@
  (GA1 :> [address |-> GA1, name |-> "Central", project_uid |-> Some(13),
           dpt |-> None, data_secure |-> FALSE,
           description |-> "all off", comment |-> "", raw_address |-> 1])

\* a bus table holding the records of the addresses in S
BusTable(S) == [ga \in S |-> GroupAddressPool[ga]]

\* communication object ids "a", "ab" and "b"
CO_a == <<"a">>
CO_ab == <<"a", "b">>
CO_b == <<"b">>
CommObjectIds == {CO_a, CO_ab, CO_b}

\* a communication object with the given id and links: "a" and "ab" share a
\* number, "b" has a smaller number and the greatest id
CommObject(id, links) ==
  [name |-> IF id = CO_a THEN "Ausgang A" ELSE IF id = CO_ab THEN "Ausgang B" ELSE "Status",
   number |-> IF id = CO_b THEN 1 ELSE 3,
   text |-> "Schalten",
   function_text |-> IF id = CO_b THEN "Ein/Aus" ELSE "",
   description |-> "",
   channel |-> IF id = CO_a THEN Some("ch1") ELSE IF id = CO_b THEN Some("ch9") ELSE None,
   group_address_links |-> links]

\* the sequences over S of length at most n
SeqsUpTo(S, n) == UNION {[1..k -> S] : k \in 0..n}

\* the endpoint tables over the ids in CommObjectIds: an id is absent, or
\* present with a link list over the buses in S
CommObjectTables(S) ==
  UNION {[present -> SeqsUpTo(S, MaxLinks)] : present \in SUBSET CommObjectIds}

CommObjectTableOf(links) == [id \in DOMAIN links |-> CommObject(id, links[id])]

\* a device record
Device(name, ids, channels) ==
  [name |-> name, hardware_name |-> "HW " \o name, manufacturer_name |-> "MDT",
   order_number |-> "ON " \o name, application |-> IF ids = {} THEN None ELSE Some("App"),
   communication_object_ids |-> ids, channels |-> channels]

NoChannels == [ch \in {} |-> 0]
OneChannel(ids) == ("ch1" :> [name |-> "Kanal A", communication_object_ids |-> ids])

\* individual addresses
IA_1_1_5 == <<"1", ".", "1", ".", "5">>
IA_1_1_7 == <<"1", ".", "1", ".", "7">>
IA_1_1_9 == <<"1", ".", "1", ".", "9">>
IA_1_1_10 == <<"1", ".", "1", ".", "1", "0">>
IA_x_1_2 == <<"x", ".", "1", ".", "2">>
IA_y_1_2 == <<"y", ".", "1", ".", "2">>
IA_1_1 == <<"1", ".", "1">>
IA_1_1_5_2 == <<"1", ".", "1", ".", "5", ".", "2">>

\* the endpoint table of the projects whose devices vary: "a" repeats a
\* link, every bus is linked by two endpoints
FixedCommObjects ==
  CommObjectTableOf((CO_a :> <<GA5, GA5>>) @@ (CO_ab :> <<GA10, GA1>>) @@
                    (CO_b :> <<GA1, GA5>>))

\* the same table without "b", which the devices then reference in vain
CommObjectsWithoutB ==
  CommObjectTableOf((CO_a :> <<GA5, GA5>>) @@ (CO_ab :> <<GA10, GA1>>))

\* a project: devices is the dict of devices in insertion order, as a
\* sequence of [address, device] with distinct addresses
Project(devices, communication_objects, group_addresses) ==
  [devices |-> devices, communication_objects |-> communication_objects,
   group_addresses |-> group_addresses]

\* family 1: one device with device-level and channel ids that overlap, every
\* endpoint table over two buses, every bus table over these buses
EndpointProjects ==
  {Project(<<[address |-> IA_1_1_5,
              device |-> Device("Aktor", {CO_a, CO_ab}, OneChannel({CO_a, CO_b}))]>>,
           CommObjectTableOf(links), BusTable(S)) :
     links \in CommObjectTables({GA5, GA10}), S \in SUBSET {GA5, GA10}}

\* family 2: one device with every split of the ids between the device and
\* an optional channel, every bus table over three buses
DeviceShapes ==
  {Device("Aktor", ids, NoChannels) : ids \in SUBSET CommObjectIds} \cup
  {Device("Aktor", ids, OneChannel(chids)) :
     ids \in SUBSET CommObjectIds, chids \in SUBSET CommObjectIds}

DeviceProjects ==
  {Project(<<[address |-> IA_1_1_7, device |-> d]>>, cos, BusTable(S)) :
     d \in DeviceShapes, cos \in {FixedCommObjects, CommObjectsWithoutB},
     S \in SUBSET {GA5, GA10, GA1}}

\* family 3: up to MaxDevices devices in every insertion order; the device
\* at an address is fixed
DevicePool ==
  (IA_1_1_5 :> Device("Aktor", {CO_a, CO_ab}, OneChannel({CO_a, CO_b}))) @@
  (IA_1_1_7 :> Device("Taster", {}, OneChannel({CO_ab}))) @@
  (IA_1_1_9 :> Device("Dimmer", {CO_b}, NoChannels)) @@
  (IA_1_1_10 :> Device("Netzteil", {}, NoChannels)) @@
  (IA_x_1_2 :> Device("Sensor", {CO_a}, NoChannels)) @@
  (IA_y_1_2 :> Device("Koppler", {}, NoChannels)) @@
  (IA_1_1 :> Device("Melder", {CO_ab}, NoChannels)) @@
  (IA_1_1_5_2 :> Device("Uhr", {}, NoChannels))

InjectiveSeqs(S, n) ==
  {q \in SeqsUpTo(S, n) : \A i, j \in 1..Len(q) : i # j => q[i] # q[j]}

ViewProjects ==
  {Project([i \in 1..Len(q) |-> [address |-> q[i], device |-> DevicePool[q[i]]]],
           FixedCommObjects, BusTable(S)) :
     q \in InjectiveSeqs(DOMAIN DevicePool, MaxDevices),
     S \in {{GA5, GA10, GA1}, {GA5, GA1}}}

Projects == EndpointProjects \cup DeviceProjects \cup ViewProjects

\* the projects that two calls aggregate at the same time: up to two of
\* three devices that share endpoints, with and without a bus absent from
\* the table
ConcurrentProjects ==
  {Project([i \in 1..Len(q) |-> [address |-> q[i], device |-> DevicePool[q[i]]]],
           FixedCommObjects, BusTable(S)) :
     q \in {r \in SeqsUpTo({IA_1_1_5, IA_1_1_9, IA_x_1_2}, 2) :
              \A i, j \in 1..Len(r) : i # j => r[i] # r[j]},
     S \in {{GA5, GA10, GA1}, {GA5, GA1}}}

\* project["devices"][individual_address]
DeviceAt(p, individual_address) ==
  LET i == CHOOSE k \in 1..Len(p.devices) : p.devices[k].address = individual_address
  IN  p.devices[i].device

\* ------------------------------------------------------------------------
\* build_logical_device_view as a state machine
\* ------------------------------------------------------------------------
VARIABLES
  project,        \* the project model, shared by every call
  calls,          \* the frame of each call of build_logical_device_view
  files,          \* the file system: location -> content of the file there
  files_at_call,  \* history: the file system when the export was called
  export          \* the frame of the call of an export operation

vars == <<project, calls, files, files_at_call, export>>

\* the frame of an export operation that is not called
NoExport ==
  [pc |-> "idle", variant |-> "none", input_path |-> None, output_path |-> None,
   info |-> None, payload |-> None, final_output |-> None, error |-> "",
   returned |-> None]

\* build_logical_device_view called directly: no file is involved
NoFiles ==
  /\ files = <<>>
  /\ files_at_call = <<>>
  /\ export = NoExport

\* sorted(project["devices"].items(), key=_individual_address_sort_key(item[0]))
SortedDevices(devices) ==
  SortedByKey([i \in 1..Len(devices) |->
                 [key |-> _individual_address_sort_key(devices[i].address),
                  val |-> devices[i]]])

\* the frame of a call that has not started
NewFrame ==
  [pc |-> "start", pending |-> <<>>, individual_address |-> None,
   device_comm_object_ids |-> {}, visited |-> <<>>,
   scan |-> EmptyScan, logical_devices |-> <<>>]

Init ==
  /\ project \in Projects
  /\ calls = [c \in {1} |-> NewFrame]
  /\ NoFiles

\* two calls of build_logical_device_view on the same project model
InitConcurrent ==
  /\ project \in ConcurrentProjects
  /\ calls = [c \in {1, 2} |-> NewFrame]
  /\ NoFiles

\* lines 54-60: the call starts and orders the devices
Enter(c) ==
  /\ calls[c].pc = "start"
  /\ calls' = [calls EXCEPT ![c].pc = "devices",
                            ![c].pending = SortedDevices(project.devices),
                            ![c].logical_devices = <<>>]
  /\ UNCHANGED <<project, files, files_at_call, export>>

\* a faulty variant of EnterCollect in which processed_links outlives the
\* aggregation of one device: the next device starts with the pairs recorded
\* for the devices before it
EnterCollectKeepProcessed(c) ==
  /\ calls[c].pc = "devices"
  /\ calls[c].pending # <<>>
  /\ calls' = [calls EXCEPT
       ![c].pc = "scan",
       ![c].individual_address = Some(Head(calls[c].pending).address),
       ![c].device_comm_object_ids =
          _gather_comm_object_ids(Head(calls[c].pending).device),
       ![c].visited = <<>>,
       ![c].scan = [grouped_addresses |-> <<>>,
                    processed_links |-> calls[c].scan.processed_links]]
  /\ UNCHANGED <<project, files, files_at_call, export>>

\* lines 61, 125-127: _collect_group_addresses is entered for the next device
EnterCollect(c) ==
  /\ calls[c].pc = "devices"
  /\ calls[c].pending # <<>>
  /\ calls' = [calls EXCEPT
       ![c].pc = "scan",
       ![c].individual_address = Some(Head(calls[c].pending).address),
       ![c].device_comm_object_ids =
          _gather_comm_object_ids(Head(calls[c].pending).device),
       ![c].visited = <<>>,
       ![c].scan = EmptyScan]
  /\ UNCHANGED <<project, files, files_at_call, export>>

\* a faulty variant of VisitNext in which processed_links is one set shared by
\* all calls: the pairs the other calls have recorded are taken as processed
VisitNextSharedDedup(c) ==
  /\ calls[c].pc = "scan"
  /\ \E id \in calls[c].device_comm_object_ids :
       calls' = [calls EXCEPT
         ![c].device_comm_object_ids = @ \ {id},
         ![c].visited = Append(@, id),
         ![c].scan = VisitCommObject(
                       [@ EXCEPT !.processed_links =
                          UNION {calls[d].scan.processed_links : d \in DOMAIN calls}],
                       Head(calls[c].pending).device, id,
                       project.communication_objects, project.group_addresses)]
  /\ UNCHANGED <<project, files, files_at_call, export>>

\* lines 129-152: one iteration of the loop over the id set, whose iteration
\* order is not defined: any id not yet visited may come next
VisitNext(c) ==
  /\ calls[c].pc = "scan"
  /\ \E id \in calls[c].device_comm_object_ids :
       calls' = [calls EXCEPT
         ![c].device_comm_object_ids = @ \ {id},
         ![c].visited = Append(@, id),
         ![c].scan = VisitCommObject(@, Head(calls[c].pending).device, id,
                                     project.communication_objects,
                                     project.group_addresses)]
  /\ UNCHANGED <<project, files, files_at_call, export>>

\* a faulty variant of ReturnCollect that exports only the devices that have
\* group addresses
ReturnCollectSkipEmpty(c) ==
  LET item == Head(calls[c].pending)
      sorted_groups == SortGrouped(calls[c].scan.grouped_addresses,
                                   project.group_addresses)
  IN  /\ calls[c].pc = "scan"
      /\ calls[c].device_comm_object_ids = {}
      /\ sorted_groups.ok
      /\ calls' = [calls EXCEPT
           ![c].pc = "devices",
           ![c].pending = Tail(@),
           ![c].logical_devices =
              IF sorted_groups.val = <<>> THEN @
              ELSE Append(@,
                     [individual_address |-> item.address,
                      name |-> item.device.name,
                      hardware_name |-> item.device.hardware_name,
                      manufacturer_name |-> item.device.manufacturer_name,
                      order_number |-> item.device.order_number,
                      application |-> item.device.application,
                      group_addresses |-> sorted_groups.val])]
      /\ UNCHANGED <<project, files, files_at_call, export>>

\* lines 154-157, 66-76: the groups and links are sorted and the summary of
\* the device is appended
ReturnCollect(c) ==
  LET item == Head(calls[c].pending)
      sorted_groups == SortGrouped(calls[c].scan.grouped_addresses,
                                   project.group_addresses)
  IN  /\ calls[c].pc = "scan"
      /\ calls[c].device_comm_object_ids = {}
      /\ sorted_groups.ok
      /\ calls' = [calls EXCEPT
           ![c].pc = "devices",
           ![c].pending = Tail(@),
           ![c].logical_devices = Append(@,
              [individual_address |-> item.address,
               name |-> item.device.name,
               hardware_name |-> item.device.hardware_name,
               manufacturer_name |-> item.device.manufacturer_name,
               order_number |-> item.device.order_number,
               application |-> item.device.application,
               group_addresses |-> sorted_groups.val])]
      /\ UNCHANGED <<project, files, files_at_call, export>>

\* line 237: sorted() compares an int key with a str key and raises
\* TypeError, which nothing catches: the call ends without a result
RaiseTypeError(c) ==
  /\ calls[c].pc = "scan"
  /\ calls[c].device_comm_object_ids = {}
  /\ ~SortGrouped(calls[c].scan.grouped_addresses, project.group_addresses).ok
  /\ calls' = [calls EXCEPT ![c].pc = "raised"]
  /\ UNCHANGED <<project, files, files_at_call, export>>

\* line 78: every device is summarized, the list is returned
Return(c) ==
  /\ calls[c].pc = "devices"
  /\ calls[c].pending = <<>>
  /\ calls' = [calls EXCEPT ![c].pc = "done"]
  /\ UNCHANGED <<project, files, files_at_call, export>>

Next ==
  \/ \E c \in DOMAIN calls : Enter(c)
  \/ \E c \in DOMAIN calls : EnterCollect(c)
  \/ \E c \in DOMAIN calls : VisitNext(c)
  \/ \E c \in DOMAIN calls : ReturnCollect(c)
  \/ \E c \in DOMAIN calls : RaiseTypeError(c)
  \/ \E c \in DOMAIN calls : Return(c)

Spec == Init /\ [][Next]_vars

\* the calls interleave at every iteration of their loops
SpecConcurrent == InitConcurrent /\ [][Next]_vars


\* ------------------------------------------------------------------------
\* export_logical_devices and export_logical_devices_from_knxproj
\* ------------------------------------------------------------------------
\* a location: the directory and the final component, a str
Location(dir, name) == [dir |-> dir, name |-> name]

\* the content of a file: the members of the serialized dict, in order;
\* wellformed is false for text that json.loads does not accept
Content(wellformed, members) == [wellformed |-> wellformed, members |-> members]

\* open(mode="w") leaves the file empty
EmptyContent == Content(FALSE, <<>>)

\* files.get(location)
FileAt(fs, location) == IF location \in DOMAIN fs THEN Some(fs[location]) ELSE None

\* the value of the member named key
Member(members, key) ==
  members[CHOOSE i \in 1..Len(members) : members[i].key = key].value

HasMember(members, key) == \E i \in 1..Len(members) : members[i].key = key

\* json.dumps(stub_project): the project model as the input location holds it
DumpProject(p, info) ==
  Content(TRUE,
    (IF info = None THEN <<>> ELSE <<[key |-> "info", value |-> info[1]]>>) \o
    <<[key |-> "devices", value |-> p.devices],
      [key |-> "communication_objects", value |-> p.communication_objects],
      [key |-> "group_addresses", value |-> p.group_addresses]>>)

\* json.loads(text): the project tables and the optional "info" block
LoadProject(content) ==
  [project |-> Project(Member(content.members, "devices"),
                       Member(content.members, "communication_objects"),
                       Member(content.members, "group_addresses")),
   info |-> IF HasMember(content.members, "info")
            THEN Some(Member(content.members, "info")) ELSE None]

\* _build_payload: project.get("info", {}) and the device summaries
_build_payload(info, logical_devices) ==
  [project |-> IF info = None THEN {} ELSE info[1], devices |-> logical_devices]

\* json.dumps(payload, indent=2, ensure_ascii=False)
DumpPayload(payload) ==
  Content(TRUE, <<[key |-> "project", value |-> payload.project],
                  [key |-> "devices", value |-> payload.devices]>>)

\* what a write that fails midway leaves of the text: a proper prefix
PartialContents(content) ==
  {Content(FALSE, SubSeq(content.members, 1, k)) : k \in 0..(Len(content.members) - 1)}

\* "_logical_devices.json"
LogicalDevicesSuffix ==
  <<"_", "l", "o", "g", "i", "c", "a", "l", "_", "d", "e", "v", "i", "c", "e", "s",
    ".", "j", "s", "o", "n">>

\* name.rfind("."), counted from 1; 0 if there is no "."
LastDot(name) ==
  IF \E i \in 1..Len(name) : name[i] = "."
  THEN CHOOSE i \in 1..Len(name) :
         /\ name[i] = "."
         /\ \A j \in (i + 1)..Len(name) : name[j] # "."
  ELSE 0

\* PurePath.stem: the name without its last suffix; a leading or a trailing
\* "." starts no suffix
Stem(name) ==
  IF 1 < LastDot(name) /\ LastDot(name) < Len(name)
  THEN SubSeq(name, 1, LastDot(name) - 1)
  ELSE name

\* a faulty variant of FinalOutput that ignores the explicit location
DerivedOutputOnly(input_path, output_path) ==
  Location(input_path.dir, Stem(input_path.name) \o LogicalDevicesSuffix)

\* output_path or input_path.with_name(f"{input_path.stem}_logical_devices.json")
FinalOutput(input_path, output_path) ==
  IF output_path # None THEN output_path[1]
  ELSE Location(input_path.dir, Stem(input_path.name) \o LogicalDevicesSuffix)

\* input names: "project.json" of the test shortened, an archive name with two
\* dots, a name without suffix, a name with a leading dot
Name_p_json == <<"p", ".", "j", "s", "o", "n">>
Name_a_b_knxproj == <<"a", ".", "b", ".", "k", "n", "x", "p", "r", "o", "j">>
Name_p == <<"p">>
Name_dot_p == <<".", "p">>
InputNames == {Name_p_json, Name_a_b_knxproj, Name_p, Name_dot_p}

\* the explicit output location of the test: another directory, "out.json"
ExplicitOutput == Location("out", <<"o", "u", "t", ".", "j", "s", "o", "n">>)

\* locations that may hold a file of an earlier export when the call starts
OldLocations ==
  {ExplicitOutput, Location("in", <<"p">> \o LogicalDevicesSuffix)}

\* the output of an earlier export: no project block, no devices
OldContent == DumpPayload(_build_payload(None, <<>>))

\* the "info" block of a project dump
InfoBlock == {<<"name", "Haus">>}

\* the projects the input location holds: at most one device, with and
\* without a bus that is absent from the bus table
ExportProjects == {p \in ConcurrentProjects : Len(p.devices) <= 1}

\* the file system before the call: the input location holds nothing, text
\* that is no JSON document, or the dump of a project; earlier exports may
\* exist
InitExport ==
  /\ project = Project(<<>>, <<>>, <<>>)
  /\ calls = <<>>
  /\ \E variant \in {"json", "knxproj"}, name \in InputNames,
        output_path \in {None, Some(ExplicitOutput)} :
       export = [NoExport EXCEPT !.pc = "start", !.variant = variant,
                                 !.input_path = Some(Location("in", name)),
                                 !.output_path = output_path]
  /\ \E old \in SUBSET OldLocations, p \in ExportProjects,
        info \in {None, Some(InfoBlock)},
        input \in {"absent", "garbled", "dump"} :
       files = [l \in old |-> OldContent] @@
               (IF input = "absent" THEN <<>>
                ELSE export.input_path[1] :>
                       (IF input = "garbled" THEN Content(FALSE, <<>>)
                        ELSE DumpProject(p, info)))
  /\ files_at_call = files

\* the export raises: the exception leaves the function, no handler runs
Raise(error) ==
  export' = [export EXCEPT !.pc = "raised", !.error = error]

\* line 84: json.loads(input_path.read_text(encoding="utf-8")) raises
ReadInputFails ==
  /\ export.pc = "start"
  /\ export.variant = "json"
  /\ \/ /\ FileAt(files, export.input_path[1]) = None
        /\ Raise("FileNotFoundError")
     \/ /\ FileAt(files, export.input_path[1]) # None
        /\ ~files[export.input_path[1]].wellformed
        /\ Raise("JSONDecodeError")
  /\ UNCHANGED <<project, calls, files, files_at_call>>

\* line 84-85: the dump is decoded and build_logical_device_view is called
ReadInput ==
  /\ export.pc = "start"
  /\ export.variant = "json"
  /\ FileAt(files, export.input_path[1]) # None
  /\ files[export.input_path[1]].wellformed
  /\ project' = LoadProject(files[export.input_path[1]]).project
  /\ calls' = (1 :> NewFrame)
  /\ export' = [export EXCEPT !.pc = "build",
                  !.info = LoadProject(files[export.input_path[1]]).info]
  /\ UNCHANGED <<files, files_at_call>>

\* line 107: XKNXProj(...).parse() raises: no archive, a corrupt archive, a
\* bad password, an unsupported format
ParseArchiveFails ==
  /\ export.pc = "start"
  /\ export.variant = "knxproj"
  /\ Raise("ParserError")
  /\ UNCHANGED <<project, calls, files, files_at_call>>

\* lines 107-108: XKNXProj(...).parse() returns the project model of the
\* archive and build_logical_device_view is called
ParseArchive ==
  /\ export.pc = "start"
  /\ export.variant = "knxproj"
  /\ FileAt(files, export.input_path[1]) # None
  /\ files[export.input_path[1]].wellformed
  /\ project' = LoadProject(files[export.input_path[1]]).project
  /\ calls' = (1 :> NewFrame)
  /\ export' = [export EXCEPT !.pc = "build",
                  !.info = LoadProject(files[export.input_path[1]]).info]
  /\ UNCHANGED <<files, files_at_call>>

\* lines 85, 108: build_logical_device_view raised inside _build_payload
BuildRaises ==
  /\ export.pc = "build"
  /\ calls[1].pc = "raised"
  /\ Raise("TypeError")
  /\ UNCHANGED <<project, calls, files, files_at_call>>

\* lines 85-89, 108-112: the payload is assembled and the output location
\* is chosen
BuildPayload ==
  /\ export.pc = "build"
  /\ calls[1].pc = "done"
  /\ export' = [export EXCEPT !.pc = "open",
       !.payload = Some(_build_payload(export.info, calls[1].logical_devices)),
       !.final_output = Some(FinalOutput(export.input_path[1], export.output_path))]
  /\ UNCHANGED <<project, calls, files, files_at_call>>

\* lines 90, 113: write_text opens the file with mode "w": the open fails
\* and nothing changes, or the file is created or truncated
OpenOutput ==
  /\ export.pc = "open"
  /\ \/ /\ Raise("OSError")
        /\ UNCHANGED files
     \/ /\ files' = (export.final_output[1] :> EmptyContent) @@ files
        /\ export' = [export EXCEPT !.pc = "write"]
  /\ UNCHANGED <<project, calls, files_at_call>>

\* lines 90-92, 113-115: the text is written and the file closed; a write
\* that fails leaves a part of the text
WriteOutput ==
  /\ export.pc = "write"
  /\ \/ /\ files' = (export.final_output[1] :> DumpPayload(export.payload[1])) @@ files
        /\ export' = [export EXCEPT !.pc = "written"]
     \/ /\ \E part \in PartialContents(DumpPayload(export.payload[1])) :
             files' = (export.final_output[1] :> part) @@ files
        /\ Raise("OSError")
  /\ UNCHANGED <<project, calls, files_at_call>>

\* lines 93, 116: return final_output
ReturnOutput ==
  /\ export.pc = "written"
  /\ export' = [export EXCEPT !.pc = "done", !.returned = export.final_output]
  /\ UNCHANGED <<project, calls, files, files_at_call>>

NextExport ==
  \/ ReadInputFails
  \/ ReadInput
  \/ ParseArchiveFails
  \/ ParseArchive
  \/ BuildRaises
  \/ BuildPayload
  \/ OpenOutput
  \/ WriteOutput
  \/ ReturnOutput
  \/ \E c \in DOMAIN calls : Enter(c)
  \/ \E c \in DOMAIN calls : EnterCollect(c)
  \/ \E c \in DOMAIN calls : VisitNext(c)
  \/ \E c \in DOMAIN calls : ReturnCollect(c)
  \/ \E c \in DOMAIN calls : RaiseTypeError(c)
  \/ \E c \in DOMAIN calls : Return(c)

SpecExport == InitExport /\ [][NextExport]_vars


\* ------------------------------------------------------------------------
\* Properties
\* ------------------------------------------------------------------------
Range(q) == {q[i] : i \in 1..Len(q)}

\* the summaries call c has appended so far
Summaries(c) == Range(calls[c].logical_devices)

\* e is in the device-level id set of D or in the id set of one of its channels
Listed(D, e) ==
  \/ e \in D.communication_object_ids
  \/ \E ch \in DOMAIN D.channels : e \in D.channels[ch].communication_object_ids

\* the ids D lists that the endpoint table holds
Reachable(D) ==
  {e \in DOMAIN project.communication_objects : Listed(D, e)}

LinksOf(e) == project.communication_objects[e].group_address_links

\* the places <<g, k>> of summary s where link k of bus entry g has id e and
\* the entry has address a
LinkPlaces(s, a, e) ==
  UNION {{<<g, k>> : k \in {k \in 1..Len(s.group_addresses[g].communication_objects) :
                             s.group_addresses[g].communication_objects[k].id = e}} :
         g \in {g \in 1..Len(s.group_addresses) : s.group_addresses[g].address = a}}

\* C1: in the summary of every device D, every endpoint e that D lists (at
\* device level, in a channel, or both) and the endpoint table holds has
\* exactly one link under the bus entry of every address of its link list,
\* however often the address is repeated there
C1_EachPairExactlyOnce ==
  \A c \in DOMAIN calls : \A s \in Summaries(c) :
    LET D == DeviceAt(project, s.individual_address)
    IN  \A e \in Reachable(D) : \A a \in Range(LinksOf(e)) :
          Cardinality(LinkPlaces(s, a, e)) = 1

\* a summary whose device lists an endpoint both at device level and in a
\* channel, the endpoint repeating an address in its link list
C1_Witness ==
  \E c \in DOMAIN calls : \E s \in Summaries(c) :
    LET D == DeviceAt(project, s.individual_address)
    IN  \E e \in Reachable(D) :
          /\ e \in D.communication_object_ids
          /\ \E ch \in DOMAIN D.channels : e \in D.channels[ch].communication_object_ids
          /\ \E i, j \in 1..Len(LinksOf(e)) : i # j /\ LinksOf(e)[i] = LinksOf(e)[j]
          /\ Cardinality(LinkPlaces(s, LinksOf(e)[1], e)) = 1

\* the addresses the endpoints of D reference
Referenced(D) == UNION {Range(LinksOf(e)) : e \in Reachable(D)}

\* the 'address' fields of the bus entries of summary s, in order
Addresses(s) == [g \in 1..Len(s.group_addresses) |-> s.group_addresses[g].address]

\* C2: the addresses of the bus entries of a device summary enumerate,
\* without repetition, exactly the addresses its reachable endpoints link
C2_AddressesAreTheReferencedOnes ==
  \A c \in DOMAIN calls : \A s \in Summaries(c) :
    /\ \A g, h \in 1..Len(s.group_addresses) :
         g # h => Addresses(s)[g] # Addresses(s)[h]
    /\ Range(Addresses(s)) = Referenced(DeviceAt(project, s.individual_address))

\* a summary with two bus entries, one of them linked by two endpoints
C2_Witness ==
  \E c \in DOMAIN calls : \E s \in Summaries(c) :
    /\ Len(s.group_addresses) >= 2
    /\ \E g \in 1..Len(s.group_addresses) :
         Len(s.group_addresses[g].communication_objects) >= 2
    /\ Cardinality(Referenced(DeviceAt(project, s.individual_address))) >= 2


\* the ordering key of a bus entry of a summary: the raw address of a bus of
\* the table, else the address string
Known(a) == a \in DOMAIN project.group_addresses

EntryBefore(x, y) ==
  IF Known(x.address) /\ Known(y.address)
  THEN project.group_addresses[x.address].raw_address
         <= project.group_addresses[y.address].raw_address
  ELSE IF ~Known(x.address) /\ ~Known(y.address)
  THEN ~StrLess(y.address, x.address)
  ELSE TRUE

\* C3: for every device, also one that references buses of the table and
\* buses absent from it, the aggregation completes and the bus entries are
\* in ascending order of the bus ordering key
C3_AggregatorCompletesInKeyOrder ==
  \A c \in DOMAIN calls :
    /\ calls[c].pc # "raised"
    /\ \A s \in Summaries(c) : \A g, h \in 1..Len(s.group_addresses) :
         g < h => EntryBefore(s.group_addresses[g], s.group_addresses[h])

\* the key the device list is ordered by: the integers of the segments of
\* the address, (0, 0, 0) when a segment is no integer
ExpectedKey(individual_address) ==
  LET parts == Split(individual_address)
  IN  IF \E i \in 1..Len(parts) : ~ParseInt(parts[i]).ok THEN <<0, 0, 0>>
      ELSE [i \in 1..Len(parts) |-> ParseInt(parts[i]).val]

\* the individual addresses of a list of summaries or of device items
InputAddresses == [i \in 1..Len(project.devices) |-> project.devices[i].address]
OutputAddresses(c) ==
  [i \in 1..Len(calls[c].logical_devices) |-> calls[c].logical_devices[i].individual_address]

InputIndex(a) == CHOOSE i \in 1..Len(InputAddresses) : InputAddresses[i] = a

\* the arrangements of a sequence
Arrangements(q) ==
  {[i \in 1..Len(q) |-> q[f[i]]] :
     f \in {g \in [1..Len(q) -> 1..Len(q)] : \A i, j \in 1..Len(q) : i # j => g[i] # g[j]}}

AscendingKeys(out) ==
  \A i, j \in 1..Len(out) :
    i < j => ~TupleLess(ExpectedKey(out[j]), ExpectedKey(out[i]))

\* C4 as claimed: the returned device list is in ascending order of the
\* numeric key and is the same for every order of the devices in the input
C4_OrderIndependentOfInput ==
  \A c \in DOMAIN calls :
    calls[c].pc = "done" =>
      /\ AscendingKeys(OutputAddresses(c))
      /\ \A q \in Arrangements(project.devices) :
           [i \in 1..Len(q) |-> SortedDevices(q)[i].address] = OutputAddresses(c)

\* C4 as amended: the returned device list holds every device once, in
\* ascending order of the numeric key (compared as integers), and devices
\* with equal keys keep the order they have in the input table
C4_AscendingKeysTiesInInputOrder ==
  \A c \in DOMAIN calls :
    calls[c].pc = "done" =>
      LET out == OutputAddresses(c)
      IN  /\ Len(out) = Len(InputAddresses)
          /\ Range(out) = Range(InputAddresses)
          /\ AscendingKeys(out)
          /\ \A i, j \in 1..Len(out) :
               (i < j /\ ExpectedKey(out[i]) = ExpectedKey(out[j]))
                 => InputIndex(out[i]) < InputIndex(out[j])

\* a returned list that moved "1.1.10", first in the input, behind the two
\* devices with a non-numeric segment, which kept their input order
C4_Witness ==
  \E c \in DOMAIN calls :
    /\ calls[c].pc = "done"
    /\ InputAddresses = <<IA_1_1_10, IA_y_1_2, IA_x_1_2>>
    /\ OutputAddresses(c) = <<IA_y_1_2, IA_x_1_2, IA_1_1_10>>

\* C5: the ordering key of every device is a triple, and the fixed triple
\* (0, 0, 0) when the address does not have exactly three segments
C5_KeyIsATriple ==
  \A c \in DOMAIN calls :
    calls[c].pc # "start" =>
      \A i \in 1..Len(project.devices) :
        LET a == project.devices[i].address
        IN  /\ Len(_individual_address_sort_key(a)) = 3
            /\ Len(Split(a)) # 3 => _individual_address_sort_key(a) = <<0, 0, 0>>

\* the links of a bus entry are in ascending order of (number, id)
LinksAscending(links) ==
  \A i, j \in 1..Len(links) :
    i < j => \/ links[i].number < links[j].number
             \/ /\ links[i].number = links[j].number
                /\ ~StrLess(links[j].id, links[i].id)

\* C6: in every bus entry of every device summary the links are in ascending
\* order of (number, id), the id deciding between equal numbers
C6_LinksSortedByNumberThenId ==
  \A c \in DOMAIN calls : \A s \in Summaries(c) :
    \A g \in 1..Len(s.group_addresses) :
      LinksAscending(s.group_addresses[g].communication_objects)

\* a bus entry with the links of "b" (number 1), "a" and "ab" (number 3), in
\* that order, of a device whose ids were visited in the order "ab", "a", "b"
C6_Witness ==
  \E c \in DOMAIN calls : \E s \in Summaries(c) :
    /\ calls[c].visited = <<CO_ab, CO_a, CO_b>>
    /\ calls[c].individual_address = Some(s.individual_address)
    /\ \E g \in 1..Len(s.group_addresses) :
         [k \in 1..Len(s.group_addresses[g].communication_objects) |->
            s.group_addresses[g].communication_objects[k].id] = <<CO_b, CO_a, CO_ab>>


\* the device call c is aggregating or has aggregated last
CurrentDevice(c) == DeviceAt(project, calls[c].individual_address[1])

\* call c has just appended the summary of its current device
JustSummarized(c) ==
  /\ calls[c].pc \in {"devices", "done"}
  /\ calls[c].logical_devices # <<>>
  /\ calls[c].individual_address =
       Some(calls[c].logical_devices[Len(calls[c].logical_devices)].individual_address)

LastSummary(c) == calls[c].logical_devices[Len(calls[c].logical_devices)]

\* C7: the metadata of a bus entry is that of the table record when the
\* address is a key of the bus table; when it is absent from the table the
\* aggregation does not fail and the entry is the stub
C7_StubOrTableMetadata ==
  \A c \in DOMAIN calls :
    /\ \A s \in Summaries(c) : \A g \in 1..Len(s.group_addresses) :
         LET entry == s.group_addresses[g]
             SameAs(r) == /\ entry.name = r.name
                          /\ entry.project_uid = r.project_uid
                          /\ entry.dpt = r.dpt
                          /\ entry.data_secure = r.data_secure
                          /\ entry.description = r.description
                          /\ entry.comment = r.comment
         IN  IF Known(entry.address)
             THEN SameAs(project.group_addresses[entry.address])
             ELSE SameAs([name |-> "", project_uid |-> None, dpt |-> None,
                          data_secure |-> FALSE, description |-> "", comment |-> ""])
    /\ calls[c].pc = "raised" => \A a \in Referenced(CurrentDevice(c)) : Known(a)

\* device D without the ids that the endpoint table does not hold
WithoutDangling(D) ==
  [D EXCEPT
     !.communication_object_ids = @ \cap DOMAIN project.communication_objects,
     !.channels = [ch \in DOMAIN @ |->
                     [@[ch] EXCEPT !.communication_object_ids =
                        @ \cap DOMAIN project.communication_objects]]]

\* the visited ids that the endpoint table holds, in the order of the visit
VisitedPresent(c) ==
  LET present(e) == e \in DOMAIN project.communication_objects
  IN  SelectSeq(calls[c].visited, present)

\* the aggregation of the current device of call c without its dangling ids,
\* the other ids visited in the same order
WithoutDanglingResult(c) ==
  CollectInOrder(VisitedPresent(c), WithoutDangling(CurrentDevice(c)),
                 project.communication_objects, project.group_addresses)

\* C8: an id that a device lists and the endpoint table does not hold is
\* dropped: the aggregation yields what it yields for the device without
\* that id, and fails only if it fails without it
C8_DanglingIdsDropped ==
  \A c \in DOMAIN calls :
    /\ JustSummarized(c) =>
         /\ WithoutDanglingResult(c).ok
         /\ LastSummary(c).group_addresses = WithoutDanglingResult(c).val
    /\ calls[c].pc = "raised" => ~WithoutDanglingResult(c).ok

\* a summary with bus entries of a device that lists "b", absent from the
\* endpoint table, both at device level and in its channel
C8_Witness ==
  \E c \in DOMAIN calls :
    /\ JustSummarized(c)
    /\ CO_b \notin DOMAIN project.communication_objects
    /\ CO_b \in CurrentDevice(c).communication_object_ids
    /\ \E ch \in DOMAIN CurrentDevice(c).channels :
         CO_b \in CurrentDevice(c).channels[ch].communication_object_ids
    /\ \E i \in 1..Len(calls[c].visited) : calls[c].visited[i] = CO_b
    /\ Len(LastSummary(c).group_addresses) >= 2

\* the results of the aggregation of device D for every iteration order of
\* its id set
ResultsOverOrders(D) ==
  {CollectInOrder(order, D, project.communication_objects, project.group_addresses) :
     order \in Arrangements(Ascending(_gather_comm_object_ids(D)))}

\* C9: the result does not depend on the order in which the id set of a
\* device is iterated: the summary a run produces is the one every iteration
\* order produces, and a run fails only if every order fails
C9_SameResultForEveryScanOrder ==
  \A c \in DOMAIN calls :
    /\ JustSummarized(c) =>
         ResultsOverOrders(CurrentDevice(c)) =
           {[ok |-> TRUE, val |-> LastSummary(c).group_addresses]}
    /\ calls[c].pc = "raised" =>
         \A r \in ResultsOverOrders(CurrentDevice(c)) : ~r.ok

\* a summary with several bus entries, one of them with several links,
\* produced by a run that visited the ids in descending order
C9_Witness ==
  \E c \in DOMAIN calls :
    /\ JustSummarized(c)
    /\ calls[c].visited = <<CO_b, CO_ab, CO_a>>
    /\ Len(LastSummary(c).group_addresses) >= 2
    /\ \E g \in 1..Len(LastSummary(c).group_addresses) :
         Len(LastSummary(c).group_addresses[g].communication_objects) >= 2

\* a device without endpoint ids and without channels
EmptyDevice(D) == D.communication_object_ids = {} /\ D.channels = NoChannels

\* C10: the returned list has exactly one summary for every device of the
\* device table, with the name, hardware_name, manufacturer_name,
\* order_number and application of the device; a device without endpoints
\* and channels has a summary with an empty group_addresses list and does
\* not make the call fail
C10_OneSummaryPerDevice ==
  \A c \in DOMAIN calls :
    /\ calls[c].pc = "done" =>
         /\ Len(calls[c].logical_devices) = Len(project.devices)
         /\ \A i \in 1..Len(project.devices) :
              LET D == project.devices[i].device
                  hits == {k \in 1..Len(calls[c].logical_devices) :
                             calls[c].logical_devices[k].individual_address
                               = project.devices[i].address}
              IN  /\ Cardinality(hits) = 1
                  /\ \A k \in hits :
                       LET s == calls[c].logical_devices[k]
                       IN  /\ s.name = D.name
                           /\ s.hardware_name = D.hardware_name
                           /\ s.manufacturer_name = D.manufacturer_name
                           /\ s.order_number = D.order_number
                           /\ s.application = D.application
                           /\ EmptyDevice(D) => s.group_addresses = <<>>
    /\ calls[c].pc = "raised" => ~EmptyDevice(CurrentDevice(c))

\* a returned list of three summaries, two of them of devices without
\* endpoints and channels
C10_Witness ==
  \E c \in DOMAIN calls :
    /\ calls[c].pc = "done"
    /\ Len(calls[c].logical_devices) = 3
    /\ Cardinality({i \in 1..Len(project.devices) :
                      EmptyDevice(project.devices[i].device)}) = 2
    /\ \E k \in 1..3 : calls[c].logical_devices[k].group_addresses # <<>>


\* the device references a bus of the table and a bus absent from it
MixedBuses(D) == \E a, b \in Referenced(D) : Known(a) /\ ~Known(b)

\* C11: the channel_name of a link is the name of the device's channel whose
\* id is the 'channel' attribute of the endpoint, when the attribute is not
\* null and is a key of the device's channel map; otherwise it is null, and
\* an attribute that does not resolve makes no aggregation fail
C11_ChannelNameResolved ==
  \A c \in DOMAIN calls :
    /\ \A s \in Summaries(c) : \A g \in 1..Len(s.group_addresses) :
         \A k \in 1..Len(s.group_addresses[g].communication_objects) :
           LET D == DeviceAt(project, s.individual_address)
               link == s.group_addresses[g].communication_objects[k]
               attr == project.communication_objects[link.id].channel
           IN  /\ link.channel = attr
               /\ link.channel_name =
                    IF attr # None /\ (\E ch \in DOMAIN D.channels : attr = Some(ch))
                    THEN Some(D.channels[attr[1]].name)
                    ELSE None
    /\ calls[c].pc = "raised" => MixedBuses(CurrentDevice(c))

\* a summary with a link whose channel resolves to "Kanal A", a link whose
\* channel "ch9" the device does not have, and a link without channel
C11_Witness ==
  \E c \in DOMAIN calls : \E s \in Summaries(c) :
    LET links == UNION {Range(s.group_addresses[g].communication_objects) :
                          g \in 1..Len(s.group_addresses)}
    IN  /\ \E l \in links : l.channel = Some("ch1") /\ l.channel_name = Some("Kanal A")
        /\ \E l \in links : l.channel = Some("ch9") /\ l.channel_name = None
        /\ \E l \in links : l.channel = None /\ l.channel_name = None


\* the summaries of the devices in `items`, each aggregated with its id set
\* iterated in ascending order; ok = FALSE when an aggregation raises
RECURSIVE SummariesAlone(_)
SummariesAlone(items) ==
  IF items = <<>> THEN [ok |-> TRUE, val |-> <<>>]
  ELSE LET item == Head(items)
           groups == CollectInOrder(Ascending(_gather_comm_object_ids(item.device)),
                                    item.device, project.communication_objects,
                                    project.group_addresses)
           rest == SummariesAlone(Tail(items))
       IN  IF ~groups.ok \/ ~rest.ok THEN [ok |-> FALSE, val |-> <<>>]
           ELSE [ok |-> TRUE,
                 val |-> <<[individual_address |-> item.address,
                            name |-> item.device.name,
                            hardware_name |-> item.device.hardware_name,
                            manufacturer_name |-> item.device.manufacturer_name,
                            order_number |-> item.device.order_number,
                            application |-> item.device.application,
                            group_addresses |-> groups.val]>> \o rest.val]

\* what a call of build_logical_device_view returns when it runs alone
ResultAlone == SummariesAlone(SortedDevices(project.devices))

\* the deduplication set and the groups of call c come from the ids that c
\* itself has visited, and from nothing else
OwnScan(c) ==
  calls[c].pc = "scan" =>
    calls[c].scan = ScanInOrder(EmptyScan, calls[c].visited, CurrentDevice(c),
                                project.communication_objects, project.group_addresses)

\* C12: under every interleaving of the calls on one project model no step
\* modifies the device, endpoint and bus tables, a step of a call changes the
\* frame of that call alone, the deduplication set of a call holds what that
\* call has visited, and a call returns (or raises) as it does when run alone
C12_CallsDoNotInterfere ==
  /\ [](\A c \in DOMAIN calls :
          /\ OwnScan(c)
          /\ calls[c].pc = "done" =>
               ResultAlone = [ok |-> TRUE, val |-> calls[c].logical_devices]
          /\ calls[c].pc = "raised" => ~ResultAlone.ok)
  /\ [][/\ project' = project
        /\ \A c, d \in DOMAIN calls :
             (calls'[c] # calls[c] /\ calls'[d] # calls[d]) => c = d]_vars

\* both calls are aggregating the same device, have visited its ids in
\* different orders and hold different deduplication sets
C12_Witness ==
  /\ DOMAIN calls = {1, 2}
  /\ calls[1].pc = "scan" /\ calls[2].pc = "scan"
  /\ calls[1].individual_address = calls[2].individual_address
  /\ calls[1].visited = <<CO_a, CO_ab>>
  /\ calls[2].visited = <<CO_b>>
  /\ calls[1].scan.processed_links # calls[2].scan.processed_links
  /\ calls[1].scan.processed_links # {} /\ calls[2].scan.processed_links # {}


\* the bus entries of summary s that hold a link of endpoint e, without
\* their links
EntriesOf(s, e) ==
  {[s.group_addresses[g] EXCEPT !.communication_objects = <<>>] :
     g \in {g \in 1..Len(s.group_addresses) :
              \E k \in 1..Len(s.group_addresses[g].communication_objects) :
                s.group_addresses[g].communication_objects[k].id = e}}

\* C15: the set of processed (bus, endpoint) pairs is empty when the
\* aggregation of a device starts, so an endpoint that several devices list
\* has a link under every address of its link list in the summary of each of
\* them, with the same bus entries
C15_DedupPerDevice ==
  \A c \in DOMAIN calls :
    /\ (calls[c].pc = "scan" /\ calls[c].visited = <<>>) =>
         calls[c].scan.processed_links = {}
    /\ \A s \in Summaries(c) :
         \A e \in Reachable(DeviceAt(project, s.individual_address)) :
           {x.address : x \in EntriesOf(s, e)} = Range(LinksOf(e))
    /\ \A s, t \in Summaries(c) :
         \A e \in Reachable(DeviceAt(project, s.individual_address))
                    \cap Reachable(DeviceAt(project, t.individual_address)) :
           EntriesOf(s, e) = EntriesOf(t, e)

\* the summaries of "1.1.5" and of "1.1.9", aggregated after it, both hold
\* the links of endpoint "b", which both devices list
C15_Witness ==
  \E c \in DOMAIN calls :
    /\ calls[c].pc = "done"
    /\ OutputAddresses(c) = <<IA_1_1_5, IA_1_1_9>>
    /\ EntriesOf(calls[c].logical_devices[1], CO_b) # {}
    /\ EntriesOf(calls[c].logical_devices[2], CO_b)
         = EntriesOf(calls[c].logical_devices[1], CO_b)

\* C16: every bus entry of every device summary has at least one link: a
\* bus of the table that no endpoint of the device references and an
\* endpoint with an empty link list produce no entry
C16_NoEntryWithoutLinks ==
  \A c \in DOMAIN calls : \A s \in Summaries(c) :
    /\ \A g \in 1..Len(s.group_addresses) :
         s.group_addresses[g].communication_objects # <<>>
    /\ \A a \in DOMAIN project.group_addresses :
         a \notin Referenced(DeviceAt(project, s.individual_address)) =>
           \A g \in 1..Len(s.group_addresses) : s.group_addresses[g].address # a

\* a summary with a bus entry of a device that lists an endpoint with an
\* empty link list, while the bus table holds a bus the device does not
\* reference
C16_Witness ==
  \E c \in DOMAIN calls : \E s \in Summaries(c) :
    LET D == DeviceAt(project, s.individual_address)
    IN  /\ s.group_addresses # <<>>
        /\ \E e \in Reachable(D) : LinksOf(e) = <<>>
        /\ \E a \in DOMAIN project.group_addresses : a \notin Referenced(D)


\* C13: whenever an export operation fails, the failure reaches the caller
\* as raised and nothing runs after it, and every location holds what it
\* held at the call or the full payload
C13_FailureLeavesOutputWhole ==
  /\ [](export.pc = "raised" =>
          /\ export.error # ""
          /\ (export.variant = "json" /\
              FileAt(files_at_call, export.input_path[1]) = None) =>
               export.error = "FileNotFoundError"
          /\ \A l \in DOMAIN files :
               \/ FileAt(files, l) = FileAt(files_at_call, l)
               \/ /\ export.payload # None
                  /\ files[l] = DumpPayload(export.payload[1]))
  /\ [][export.pc = "raised" => UNCHANGED vars]_vars

\* the name of the default output next to each input name
ExpectedName ==
  (Name_p_json :> <<"p">> \o LogicalDevicesSuffix) @@
  (Name_a_b_knxproj :> <<"a", ".", "b">> \o LogicalDevicesSuffix) @@
  (Name_p :> <<"p">> \o LogicalDevicesSuffix) @@
  (Name_dot_p :> <<".", "p">> \o LogicalDevicesSuffix)

\* the location the export is to write: the explicit one, else the default
\* one next to the input
ExpectedOutput ==
  IF export.output_path # None THEN export.output_path[1]
  ELSE Location(export.input_path[1].dir, ExpectedName[export.input_path[1].name])

\* C14: an export that returns has written the full payload to the explicit
\* output location if one was given and to <input-base-name>_logical_devices.json
\* next to the input otherwise, and returns that location; no other location
\* is ever written
C14_ReturnsTheLocationWritten ==
  /\ export.pc = "done" =>
       /\ export.returned = Some(ExpectedOutput)
       /\ FileAt(files, ExpectedOutput) = Some(DumpPayload(export.payload[1]))
       /\ export.payload[1].devices = calls[1].logical_devices
  /\ export.pc # "idle" =>
       \A l \in (DOMAIN files \cup DOMAIN files_at_call) \ {ExpectedOutput} :
         FileAt(files, l) = FileAt(files_at_call, l)

\* an export from the archive "a.b.knxproj" without explicit output location
\* has returned "a.b_logical_devices.json" in the directory of the input,
\* while an earlier export at the explicit location of other calls is as it was
C14_Witness ==
  /\ export.pc = "done"
  /\ export.variant = "knxproj"
  /\ export.output_path = None
  /\ export.input_path[1].name = Name_a_b_knxproj
  /\ export.returned[1] # ExplicitOutput
  /\ export.returned[1].dir = "in"
  /\ export.payload[1].devices # <<>>
  /\ FileAt(files, ExplicitOutput) = Some(OldContent)

====
